---------------------------- MODULE Spec2Model ----------------------------
(***************************************************************************)
(* A model of pornin/cycle-counter.                                        *)
(*                                                                         *)
(*   src/cyccnt/cyccnt.c   the kernel module: init() and fini() broadcast  *)
(*                         enable_counter / disable_counter to every CPU.  *)
(*   src/test_cycle.c      the userland harness: three multiplication      *)
(*                         workloads timed with core_cycles(), reduced to  *)
(*                         a median with qsort() and cmp_u64().            *)
(*                                                                         *)
(* Register values are bit vectors, written as the set of the positions of *)
(* their 1 bits (BIT(31) does not fit TLC's integers).  The harness's      *)
(* uint32_t / uint64_t values are little-endian sequences of 8-bit limbs,  *)
(* so that the arithmetic keeps its width.                                 *)
(***************************************************************************)
EXTENDS Integers, Sequences, FiniteSets, TLC

VARIABLES
    \* ---- src/cyccnt/cyccnt.c ----
    arch,       \* the build: "aarch64" or "riscv" (#if at lines 11, 79)
    phase,      \* "unloaded", "init", "active", "fini"
    loads,      \* how many times init() was called
    regs,       \* regs[c]: the control registers of CPU c
    regs0,      \* regs[c] before the first init()
    pc,         \* pc[c]: CPU c's position in enable_counter / disable_counter
    x,          \* x[c]: the local variable x of enable_counter (aarch64)
    pmcr_read,  \* pmcr_read[c]: the value the last mrs pmcr_el0 returned
    pmcr_wrote, \* pmcr_wrote[c]: <<v>> for the last value v written to pmcr_el0
    isb_done,   \* isb_done[c]: an isb was executed since the last mrs
    runs,       \* runs[c]: enable_counter executions in the current init()
    sbi_r,      \* sbi_r[c]: <<r>> for the struct sbiret of the last sbi_ecall
    sbi_calls,  \* sbi_calls[c]: sbi_ecall requests in the current init()
    klog,       \* klog[c]: the printk lines CPU c wrote
    ret,        \* <<v>> once init() returned v
    first,      \* <<regs>> as the first init() left them
    before,     \* regs when init() was last called
    \* ---- src/test_cycle.c ----
    int128,     \* the build has unsigned __int128 (#if at line 188)
    env,        \* the machine: counter start, timing pattern, stack garbage
    argc,       \* main's argc
    st,         \* int st = atoi(argv[1])
    hpc,        \* main's position
    wl,         \* the workload running: 32, 64 or 128
    x32, y32,   \* uint32_t
    x64, y64,   \* uint64_t
    x64orig, y64orig,
    i, j,       \* the loop counters
    k,          \* the statement of the inner loop's body to execute next
    begin,      \* uint64_t begin
    tt,         \* uint64_t tt[100], indexed 0..99
    cycles,     \* the hardware cycle counter
    out,        \* the lines printed to stdout
    err,        \* the lines printed to stderr
    status,     \* <<s>> once the process exited with status s
    reads,      \* core_cycles() calls so far
    samples,    \* the deltas end - begin of the current workload, by iteration
    wcount,     \* wcount[n]: writes to tt[n] in the current workload
    presort     \* <<tt>> as it was when qsort was last called

ctlvars == <<arch, phase, loads, regs, regs0, pc, x, pmcr_read, pmcr_wrote,
             isb_done, runs, sbi_r, sbi_calls, klog, ret, first, before>>

hvars == <<int128, env, argc, st, hpc, wl, x32, y32, x64, y64, x64orig,
           y64orig, i, j, k, begin, tt, cycles, out, err, status, reads,
           samples, wcount, presort>>

vars == <<ctlvars, hvars>>

\* The harness is a separate program: while the kernel module is modelled
\* it has not started.
HarnessOff ==
    /\ int128 = FALSE /\ env = <<>> /\ argc = 0 /\ st = 0 /\ hpc = "off"
    /\ wl = 0 /\ x32 = <<>> /\ y32 = <<>> /\ x64 = <<>> /\ y64 = <<>>
    /\ x64orig = <<>> /\ y64orig = <<>> /\ i = 0 /\ j = 0 /\ k = 0
    /\ begin = <<>> /\ tt = <<>> /\ cycles = <<>> /\ out = <<>> /\ err = <<>>
    /\ status = <<>> /\ reads = 0 /\ samples = <<>> /\ wcount = <<>>
    /\ presort = <<>>

\* The kernel module, as far as the harness is concerned: not modelled.
CtlOff ==
    /\ arch = "none" /\ phase = "off" /\ loads = 0 /\ regs = <<>>
    /\ regs0 = <<>> /\ pc = <<>> /\ x = <<>> /\ pmcr_read = <<>>
    /\ pmcr_wrote = <<>> /\ isb_done = <<>> /\ runs = <<>> /\ sbi_r = <<>>
    /\ sbi_calls = <<>> /\ klog = <<>> /\ ret = <<>> /\ first = <<>>
    /\ before = <<>>

----------------------------------------------------------------------------
(* Bounds of the model.                                                    *)

\* Number of online logical processors.
NCpu == 2

\* How many times the module may be loaded (init called).
MaxLoads == 2

CPUs == 1..NCpu

----------------------------------------------------------------------------
(* Bit vectors.                                                            *)

BIT(n) == {n}

GENMASK(h, l) == l..h

\* The constant 0x2 of disable_counter (riscv): bit 1 alone.
TimerOnly == BIT(1)

----------------------------------------------------------------------------
(* The registers of one CPU.  pminten is the overflow interrupt enable     *)
(* mask that PMINTENCLR_EL1 clears bits of; pmcnten is the counter enable  *)
(* mask that PMCNTENSET_EL0 sets bits of.                                  *)

\* Register states a CPU may be in when the module is first loaded:
\* reset, configured by other software (overflow interrupt on, PMCR with
\* D, DP, LP and an N bit set), already enabled.
Aarch64Regs ==
    { [pminten |-> {}, pmcnten |-> {}, pmuserenr |-> {}, pmcr |-> {},
       pmccfiltr |-> {}, scounteren |-> {}],
      [pminten |-> {0, 31}, pmcnten |-> {0}, pmuserenr |-> {3},
       pmcr |-> {3, 5, 7, 11}, pmccfiltr |-> {30, 31}, scounteren |-> {}],
      [pminten |-> {}, pmcnten |-> {31}, pmuserenr |-> {0, 2, 6},
       pmcr |-> {0, 6, 12}, pmccfiltr |-> {27}, scounteren |-> {}] }

RiscvRegs ==
    { [pminten |-> {}, pmcnten |-> {}, pmuserenr |-> {}, pmcr |-> {},
       pmccfiltr |-> {}, scounteren |-> s] : s \in {{}, {1}, {0, 1, 2}} }

\* msr pmintenclr_el1, v: write 1 to clear.
msr_pmintenclr_el1(r, v) == [r EXCEPT !.pminten = @ \ v]

\* msr pmcntenset_el0, v: write 1 to set.
msr_pmcntenset_el0(r, v) == [r EXCEPT !.pmcnten = @ \cup v]

msr_pmuserenr_el0(r, v) == [r EXCEPT !.pmuserenr = v]

msr_pmcr_el0(r, v) == [r EXCEPT !.pmcr = v]

msr_pmccfiltr_el0(r, v) == [r EXCEPT !.pmccfiltr = v]

csr_write_scounteren(r, v) == [r EXCEPT !.scounteren = v]

\* The value enable_counter writes to pmuserenr_el0.
UserEnable == BIT(0) \cup BIT(2) \cup BIT(6)

pmcr_update_xor(v) == (v \ (BIT(0) \cup BIT(2))) \cup ((BIT(0) \cup BIT(2)) \ v)

\* x |= BIT(0) | BIT(2)
pmcr_update(v) == v \cup BIT(0) \cup BIT(2)

\* The value disable_counter writes to pmuserenr_el0.
disable_userenr_stale == UserEnable

disable_userenr == {}

\* The status codes sbi_ecall may return in sbiret.error: SBI_SUCCESS and
\* a failure (SBI_ERR_NOT_SUPPORTED).
SbiErrors == {0, -2}

on_each_cpu_self_only == {1}

\* on_each_cpu(func, NULL, 1): the CPUs func runs on.
on_each_cpu == CPUs

\* enable_counter (riscv): the step after the sbi_ecall returned r.
after_sbi_abort(r) == IF r.error # 0 THEN "done" ELSE "printk_sbi"

after_sbi(r) == "printk_sbi"

----------------------------------------------------------------------------
(* Unsigned integers of the harness: little-endian sequences of limbs,     *)
(* 4 limbs for uint32_t, 8 for uint64_t, 16 for unsigned __int128.         *)

\* Base of a limb.
LimbBase == 2 ^ 8

RECURSIVE ToLimbs(_, _)
\* The n low limbs of the natural number v.
ToLimbs(v, n) ==
    IF n = 0 THEN <<>> ELSE <<v % LimbBase>> \o ToLimbs(v \div LimbBase, n - 1)

\* (uint32_t)v and (uint64_t)v of a small natural number.
U32(v) == ToLimbs(v, 4)

U64(v) == ToLimbs(v, 8)

\* (uint64_t)a of a uint32_t: zero extension.
ZeroExtend64(a) == a \o <<0, 0, 0, 0>>

\* (unsigned)a of a uint64_t: truncation to 32 bits.
Trunc32(a) == SubSeq(a, 1, 4)

IsZero(a) == \A n \in DOMAIN a : a[n] = 0

RECURSIVE ColSum(_, _, _, _)
\* Sum of a[t] * b[c + 1 - t] for t in from..c: column c of the product.
ColSum(a, b, c, from) ==
    IF from > c \/ from > Len(a) THEN 0
    ELSE (IF c + 1 - from <= Len(b) THEN a[from] * b[c + 1 - from] ELSE 0)
         + ColSum(a, b, c, from + 1)

RECURSIVE MulCarry(_, _, _, _, _)
\* Limbs c..n of a * b, given the carry into column c.
MulCarry(a, b, c, carry, n) ==
    IF c > n THEN <<>>
    ELSE LET t == ColSum(a, b, c, 1) + carry
         IN  <<t % LimbBase>> \o MulCarry(a, b, c + 1, t \div LimbBase, n)

\* a * b modulo 2^(8 n).
MulLimbs(a, b, n) == MulCarry(a, b, 1, 0, n)

\* uint32_t a * b.
Mul32(a, b) == MulLimbs(a, b, 4)

\* uint64_t a * b.
Mul64(a, b) == MulLimbs(a, b, 8)

\* ((unsigned __int128)a * b) >> 64
MulHi64(a, b) == SubSeq(MulLimbs(a, b, 16), 9, 16)

RECURSIVE Xor8(_, _)
\* p ^ q on limbs.
Xor8(p, q) ==
    IF p = 0 /\ q = 0 THEN 0
    ELSE (((p % 2) + (q % 2)) % 2) + 2 * Xor8(p \div 2, q \div 2)

RECURSIVE Or8(_, _)
\* p | q on limbs.
Or8(p, q) ==
    IF p = 0 /\ q = 0 THEN 0
    ELSE (IF p % 2 = 1 \/ q % 2 = 1 THEN 1 ELSE 0) + 2 * Or8(p \div 2, q \div 2)

Xor(a, b) == [n \in DOMAIN a |-> Xor8(a[n], b[n])]

Or(a, b) == [n \in DOMAIN a |-> Or8(a[n], b[n])]

\* a >> 1
Shr1(a) ==
    [n \in DOMAIN a |->
        (a[n] \div 2) + (IF n < Len(a) THEN (a[n + 1] % 2) * (LimbBase \div 2) ELSE 0)]

\* a >> 8
Shr8(a) == Tail(a) \o <<0>>

\* (uint64_t)b << 63, for b in {0, 1}.
Shl63(b) == [n \in 1..8 |-> IF n = 8 THEN b * (LimbBase \div 2) ELSE 0]

RECURSIVE AddCarry(_, _, _, _)
AddCarry(a, b, n, carry) ==
    IF n > Len(a) THEN <<>>
    ELSE LET t == a[n] + b[n] + carry
         IN  <<t % LimbBase>> \o AddCarry(a, b, n + 1, t \div LimbBase)

\* a + b modulo 2^64.
Add64(a, b) == AddCarry(a, b, 1, 0)

RECURSIVE SubBorrow(_, _, _, _)
SubBorrow(a, b, n, borrow) ==
    IF n > Len(a) THEN <<>>
    ELSE LET t == a[n] - b[n] - borrow
         IN  <<t % LimbBase>> \o SubBorrow(a, b, n + 1, IF t < 0 THEN 1 ELSE 0)

\* a - b modulo 2^64.
Sub64(a, b) == SubBorrow(a, b, 1, 0)

RECURSIVE LessFrom(_, _, _)
\* a < b, deciding on limbs n, n - 1, ..., 1.
LessFrom(a, b, n) ==
    IF n = 0 THEN FALSE
    ELSE IF a[n] # b[n] THEN a[n] < b[n]
    ELSE LessFrom(a, b, n - 1)

\* x1 < x2 on uint64_t.
Less64(a, b) == LessFrom(a, b, Len(a))

cmp_u64_low(v1, v2) ==
    IF v1[1] < v2[1] THEN -1
    ELSE IF v1[1] = v2[1] THEN 0
    ELSE 1

\* cmp_u64: -1, 0 or 1 as *v1 is below, equal to or above *v2.
cmp_u64(v1, v2) ==
    IF Less64(v1, v2) THEN -1
    ELSE IF v1 = v2 THEN 0
    ELSE 1

\* qsort(tt, 100, sizeof(uint64_t), &cmp_u64) on an array indexed 0..n-1:
\* the element that cmp_u64 puts r others before goes to place r (elements
\* that compare equal keep their order).
qsort(a) ==
    LET n == Cardinality(DOMAIN a)
        s == [m \in 1..n |-> a[m - 1]] \o <<>>
        precedes(p, m) ==
            LET c == cmp_u64(s[p], s[m]) IN c < 0 \/ (c = 0 /\ p < m)
        rank == [m \in 1..n |-> Cardinality({p \in 1..n : precedes(p, m)})] \o <<>>
        at == [r \in 1..n |-> CHOOSE m \in 1..n : rank[m] = r - 1] \o <<>>
    IN  [r \in DOMAIN a |-> s[at[r + 1]]]

----------------------------------------------------------------------------
(* The kernel module.                                                      *)

InitCtl ==
    /\ arch \in {"aarch64", "riscv"}
    /\ phase = "unloaded"
    /\ loads = 0
    /\ regs \in [CPUs -> IF arch = "aarch64" THEN Aarch64Regs ELSE RiscvRegs]
    /\ regs0 = regs
    /\ pc = [c \in CPUs |-> "idle"]
    /\ x = [c \in CPUs |-> {}]
    /\ pmcr_read = [c \in CPUs |-> {}]
    /\ pmcr_wrote = [c \in CPUs |-> <<>>]
    /\ isb_done = [c \in CPUs |-> FALSE]
    /\ runs = [c \in CPUs |-> 0]
    /\ sbi_r = [c \in CPUs |-> <<>>]
    /\ sbi_calls = [c \in CPUs |-> 0]
    /\ klog = [c \in CPUs |-> <<>>]
    /\ ret = <<>>
    /\ first = <<>>
    /\ before = regs
    /\ HarnessOff

\* init(): on_each_cpu(enable_counter, NULL, 1) starts the routine on every CPU.
init_call ==
    /\ phase = "unloaded"
    /\ loads < MaxLoads
    /\ phase' = "init"
    /\ loads' = loads + 1
    /\ pc' = [c \in CPUs |-> IF c \in on_each_cpu THEN "printk" ELSE "idle"]
    /\ runs' = [c \in CPUs |-> 0]
    /\ sbi_calls' = [c \in CPUs |-> 0]
    /\ ret' = <<>>
    /\ before' = regs
    /\ UNCHANGED <<arch, regs, regs0, x, pmcr_read, pmcr_wrote, isb_done,
                   sbi_r, klog, first>>
    /\ UNCHANGED hvars

\* One step of enable_counter on CPU c, aarch64.
enable_counter_aarch64(c) ==
    /\ phase = "init"
    /\ arch = "aarch64"
    /\ pc[c] \in {"printk", "intenclr", "cntenset", "userenr", "mrs", "orr",
                  "isb", "msr", "ccfiltr"}
    /\ CASE pc[c] = "printk" ->
              /\ klog' = [klog EXCEPT ![c] = Append(@, <<"enable pmccntr_el0", c>>)]
              /\ runs' = [runs EXCEPT ![c] = @ + 1]
              /\ pc' = [pc EXCEPT ![c] = "intenclr"]
              /\ UNCHANGED <<regs, x, pmcr_read, pmcr_wrote, isb_done>>
         [] pc[c] = "intenclr" ->
              /\ regs' = [regs EXCEPT ![c] = msr_pmintenclr_el1(@, BIT(31))]
              /\ pc' = [pc EXCEPT ![c] = "cntenset"]
              /\ UNCHANGED <<klog, runs, x, pmcr_read, pmcr_wrote, isb_done>>
         [] pc[c] = "cntenset" ->
              /\ regs' = [regs EXCEPT ![c] = msr_pmcntenset_el0(@, BIT(31))]
              /\ pc' = [pc EXCEPT ![c] = "userenr"]
              /\ UNCHANGED <<klog, runs, x, pmcr_read, pmcr_wrote, isb_done>>
         [] pc[c] = "userenr" ->
              /\ regs' = [regs EXCEPT ![c] = msr_pmuserenr_el0(@, UserEnable)]
              /\ pc' = [pc EXCEPT ![c] = "mrs"]
              /\ UNCHANGED <<klog, runs, x, pmcr_read, pmcr_wrote, isb_done>>
         [] pc[c] = "mrs" ->
              /\ x' = [x EXCEPT ![c] = regs[c].pmcr]
              /\ pmcr_read' = [pmcr_read EXCEPT ![c] = regs[c].pmcr]
              /\ isb_done' = [isb_done EXCEPT ![c] = FALSE]
              /\ pc' = [pc EXCEPT ![c] = "orr"]
              /\ UNCHANGED <<klog, runs, regs, pmcr_wrote>>
         [] pc[c] = "orr" ->
              /\ x' = [x EXCEPT ![c] = pmcr_update(@)]
              /\ pc' = [pc EXCEPT ![c] = "isb"]
              /\ UNCHANGED <<klog, runs, regs, pmcr_read, pmcr_wrote, isb_done>>
         [] pc[c] = "isb" ->
              /\ isb_done' = [isb_done EXCEPT ![c] = TRUE]
              /\ pc' = [pc EXCEPT ![c] = "msr"]
              /\ UNCHANGED <<klog, runs, regs, x, pmcr_read, pmcr_wrote>>
         [] pc[c] = "msr" ->
              /\ regs' = [regs EXCEPT ![c] = msr_pmcr_el0(@, x[c])]
              /\ pmcr_wrote' = [pmcr_wrote EXCEPT ![c] = <<x[c]>>]
              /\ pc' = [pc EXCEPT ![c] = "ccfiltr"]
              /\ UNCHANGED <<klog, runs, x, pmcr_read, isb_done>>
         [] pc[c] = "ccfiltr" ->
              /\ regs' = [regs EXCEPT ![c] = msr_pmccfiltr_el0(@, BIT(27))]
              /\ pc' = [pc EXCEPT ![c] = "done"]
              /\ UNCHANGED <<klog, runs, x, pmcr_read, pmcr_wrote, isb_done>>
    /\ UNCHANGED <<arch, phase, loads, regs0, sbi_r, sbi_calls, ret, first, before>>
    /\ UNCHANGED hvars

\* One step of enable_counter on CPU c, riscv.
enable_counter_riscv(c) ==
    /\ phase = "init"
    /\ arch = "riscv"
    /\ pc[c] \in {"printk", "sbi_ecall", "printk_sbi", "csr_write"}
    /\ CASE pc[c] = "printk" ->
              /\ klog' = [klog EXCEPT ![c] = Append(@, <<"enable_rdcycle", c>>)]
              /\ runs' = [runs EXCEPT ![c] = @ + 1]
              /\ pc' = [pc EXCEPT ![c] = "sbi_ecall"]
              /\ UNCHANGED <<regs, sbi_r, sbi_calls>>
         [] pc[c] = "sbi_ecall" ->
              \E e \in SbiErrors :
                 LET r == [error |-> e, value |-> 0] IN
                 /\ sbi_r' = [sbi_r EXCEPT ![c] = <<r>>]
                 /\ sbi_calls' = [sbi_calls EXCEPT ![c] = @ + 1]
                 /\ pc' = [pc EXCEPT ![c] = after_sbi(r)]
                 /\ UNCHANGED <<regs, klog, runs>>
         [] pc[c] = "printk_sbi" ->
              /\ klog' = [klog EXCEPT ![c] =
                            Append(@, <<"sbi_ecall() returned", c,
                                        sbi_r[c][1].error, sbi_r[c][1].value>>)]
              /\ pc' = [pc EXCEPT ![c] = "csr_write"]
              /\ UNCHANGED <<regs, runs, sbi_r, sbi_calls>>
         [] pc[c] = "csr_write" ->
              /\ regs' = [regs EXCEPT ![c] = csr_write_scounteren(@, GENMASK(31, 0))]
              /\ pc' = [pc EXCEPT ![c] = "done"]
              /\ UNCHANGED <<klog, runs, sbi_r, sbi_calls>>
    /\ UNCHANGED <<arch, phase, loads, regs0, x, pmcr_read, pmcr_wrote,
                   isb_done, ret, first, before>>
    /\ UNCHANGED hvars

\* on_each_cpu returns once every CPU has run the routine (wait = 1);
\* init() then returns 0.
init_return ==
    /\ phase = "init"
    /\ \A c \in CPUs : pc[c] \in {"done", "idle"}
    /\ phase' = "active"
    /\ ret' = <<0>>
    /\ pc' = [c \in CPUs |-> "idle"]
    /\ first' = IF first = <<>> THEN <<regs>> ELSE first
    /\ UNCHANGED <<arch, loads, regs, regs0, x, pmcr_read, pmcr_wrote,
                   isb_done, runs, sbi_r, sbi_calls, klog, before>>
    /\ UNCHANGED hvars

\* fini(): on_each_cpu(disable_counter, NULL, 1).
fini_call ==
    /\ phase = "active"
    /\ phase' = "fini"
    /\ pc' = [c \in CPUs |-> IF c \in on_each_cpu THEN "printk" ELSE "idle"]
    /\ UNCHANGED <<arch, loads, regs, regs0, x, pmcr_read, pmcr_wrote,
                   isb_done, runs, sbi_r, sbi_calls, klog, ret, first, before>>
    /\ UNCHANGED hvars

\* One step of disable_counter on CPU c, aarch64.
disable_counter_aarch64(c) ==
    /\ phase = "fini"
    /\ arch = "aarch64"
    /\ pc[c] \in {"printk", "cntenset", "userenr"}
    /\ CASE pc[c] = "printk" ->
              /\ klog' = [klog EXCEPT ![c] = Append(@, <<"disable pmccntr_el0", c>>)]
              /\ pc' = [pc EXCEPT ![c] = "cntenset"]
              /\ UNCHANGED regs
         [] pc[c] = "cntenset" ->
              /\ regs' = [regs EXCEPT ![c] = msr_pmcntenset_el0(@, {})]
              /\ pc' = [pc EXCEPT ![c] = "userenr"]
              /\ UNCHANGED klog
         [] pc[c] = "userenr" ->
              /\ regs' = [regs EXCEPT ![c] = msr_pmuserenr_el0(@, disable_userenr)]
              /\ pc' = [pc EXCEPT ![c] = "done"]
              /\ UNCHANGED klog
    /\ UNCHANGED <<arch, phase, loads, regs0, x, pmcr_read, pmcr_wrote,
                   isb_done, runs, sbi_r, sbi_calls, ret, first, before>>
    /\ UNCHANGED hvars

\* One step of disable_counter on CPU c, riscv.
disable_counter_riscv(c) ==
    /\ phase = "fini"
    /\ arch = "riscv"
    /\ pc[c] \in {"printk", "csr_write"}
    /\ CASE pc[c] = "printk" ->
              /\ klog' = [klog EXCEPT ![c] = Append(@, <<"disable_rdcycle", c>>)]
              /\ pc' = [pc EXCEPT ![c] = "csr_write"]
              /\ UNCHANGED regs
         [] pc[c] = "csr_write" ->
              /\ regs' = [regs EXCEPT ![c] = csr_write_scounteren(@, TimerOnly)]
              /\ pc' = [pc EXCEPT ![c] = "done"]
              /\ UNCHANGED klog
    /\ UNCHANGED <<arch, phase, loads, regs0, x, pmcr_read, pmcr_wrote,
                   isb_done, runs, sbi_r, sbi_calls, ret, first, before>>
    /\ UNCHANGED hvars

\* on_each_cpu returns; fini() returns and the module is unloaded.
fini_return ==
    /\ phase = "fini"
    /\ \A c \in CPUs : pc[c] \in {"done", "idle"}
    /\ phase' = "unloaded"
    /\ pc' = [c \in CPUs |-> "idle"]
    /\ UNCHANGED <<arch, loads, regs, regs0, x, pmcr_read, pmcr_wrote,
                   isb_done, runs, sbi_r, sbi_calls, klog, ret, first, before>>
    /\ UNCHANGED hvars

NextCtl ==
    \/ init_call
    \/ \E c \in CPUs : enable_counter_aarch64(c)
    \/ \E c \in CPUs : enable_counter_riscv(c)
    \/ init_return
    \/ fini_call
    \/ \E c \in CPUs : disable_counter_aarch64(c)
    \/ \E c \in CPUs : disable_counter_riscv(c)
    \/ fini_return

SpecCtl == InitCtl /\ [][NextCtl]_vars

----------------------------------------------------------------------------
(* The harness, src/test_cycle.c.                                          *)

\* uint64_t tt[100]
NSamples == 100

\* for (int i = 0; i < 100; i ++) y32 *= x32;
PreIters == 100

\* for (size_t i = 0; i < 120; i ++)
OuterIters == 120

\* if (i >= 20)
Warmup == 20

\* tt[50]
MedianIndex == 50

\* EXIT_FAILURE
ExitFailure == 1

\* Iterations of the inner loop that the model runs (the source runs 1000:
\* the model follows a prefix of each chain of multiplications).
InnerIters == 1

\* The largest argc the model starts main with.
MaxArgc == 3

\* The values of atoi(argv[1]) the source documents.
Seeds == {0, 1, 3}

\* The machines the harness runs on: where the cycle counter stands when
\* main starts (0, or 3000 short of wrapping around), how the time of an
\* iteration varies, and the bytes the stack holds where tt is allocated.
Envs ==
    { [start |-> U64(0), pattern |-> 0, garbage |-> 0],
      [start |-> <<72, 244, 255, 255, 255, 255, 255, 255>>, pattern |-> 1,
       garbage |-> 170] }

\* Cycles that pass between the two core_cycles() of outer iteration it of
\* workload w: slow warm-up iterations then distinct times in no order
\* (pattern 0), or times that fall, with ties (pattern 1).
Elapsed(e, w, it) ==
    IF e.pattern = 0
    THEN (IF it < 20 THEN 9000 + it ELSE 5000 + ((it * 37) % 100)) + w
    ELSE 7000 - (it \div 2) + w

\* Cycles that pass between an iteration's end and the next one's begin.
Between(e) == 1 + e.pattern

\* The statements of one iteration of the inner loop.
BodyLen(w) == IF w = 128 THEN 10 ELSE 20

\* Statement n (from 0) of the inner loop of the 32-bit workload:
\* x32 *= y32 and y32 *= x32 in turn.  The result is <<x32, y32>>.
Step32(xv, yv, n) ==
    IF n % 2 = 0 THEN <<Mul32(xv, yv), yv>> ELSE <<xv, Mul32(yv, xv)>>

\* Statement n of the inner loop of the 64-bit workload.
Step64(xv, yv, n) ==
    IF n % 2 = 0 THEN <<Mul64(xv, yv), yv>> ELSE <<xv, Mul64(yv, xv)>>

\* Statement n of the inner loop of the 64x64->128 workload: the two
\* x64 ^= x64orig, y64 ^= y64orig, then the upper halves of the products.
Step128(xv, yv, xo, yo, n) ==
    IF n = 0 THEN <<Xor(xv, xo), yv>>
    ELSE IF n = 1 THEN <<xv, Xor(yv, yo)>>
    ELSE IF n % 2 = 0 THEN <<MulHi64(xv, yv), yv>>
    ELSE <<xv, MulHi64(yv, xv)>>

BadArgc_missing_only(n) == n < 2

\* if (argc != 2)
BadArgc(n) == n # 2

ShouldStore_always(it) == TRUE

\* if (i >= 20)
ShouldStore(it) == it >= Warmup

\* tt[i - 20]
StoreIndex(it) == it - Warmup

TopBit_always(yv) == Shl63(1)

\* uint64_t t64 = (uint64_t)((y64 >> 1) != 0) << 63;
TopBit(yv) == Shl63(IF IsZero(Shr1(yv)) THEN 0 ELSE 1)

RECURSIVE FoldBytes(_, _, _)
\* for (int i = 0; i < 8; i ++) { x ^= (unsigned)x64; x64 >>= 8; }
\* n iterations from x = xv, x64 = v.  The result is <<x, x64>>.
FoldBytes(xv, v, n) ==
    IF n = 0 THEN <<xv, v>>
    ELSE FoldBytes(Xor(xv, Trunc32(v)), Shr8(v), n - 1)

\* The label and the divisor of a workload's printf.
Label(w) ==
    IF w = 32 THEN "32x32->32 muls" ELSE IF w = 64 THEN "64x64->64 muls"
    ELSE "64x64->128 muls"

Divisor(w) == IF w = 128 THEN 8000 ELSE 20000

InitHarness ==
    /\ CtlOff
    /\ int128 \in BOOLEAN
    /\ env \in Envs
    /\ argc \in 1..MaxArgc
    /\ st = 0
    /\ hpc = "main"
    /\ wl = 0
    /\ x32 = U32(0) /\ y32 = U32(0)
    /\ x64 = U64(0) /\ y64 = U64(0) /\ x64orig = U64(0) /\ y64orig = U64(0)
    /\ i = 0 /\ j = 0 /\ k = 0
    /\ begin = U64(0)
    /\ tt = [n \in 0..(NSamples - 1) |-> [m \in 1..8 |-> env.garbage]]
    /\ cycles = env.start
    /\ out = <<>> /\ err = <<>> /\ status = <<>>
    /\ reads = 0
    /\ samples = <<>>
    /\ wcount = <<>>
    /\ presort = <<>>

\* main, argc != 2: the usage line, then exit(EXIT_FAILURE).
main_usage ==
    /\ hpc = "main"
    /\ BadArgc(argc)
    /\ err' = Append(err, "usage: test_cycle [ 0 | 1 | 3 ]")
    /\ status' = <<ExitFailure>>
    /\ hpc' = "exit"
    /\ UNCHANGED <<int128, env, argc, st, wl, x32, y32, x64, y64, x64orig,
                   y64orig, i, j, k, begin, tt, cycles, out, reads, samples,
                   wcount, presort>>
    /\ UNCHANGED ctlvars

\* main, argc = 2: st = atoi(argv[1]); x32 = (uint32_t)st; y32 = x32.
main_start ==
    /\ hpc = "main"
    /\ ~BadArgc(argc)
    /\ \E s \in Seeds :
          /\ st' = s
          /\ x32' = U32(s)
          /\ y32' = U32(s)
    /\ i' = 0
    /\ hpc' = "pre32"
    /\ UNCHANGED <<int128, env, argc, wl, x64, y64, x64orig, y64orig, j, k,
                   begin, tt, cycles, out, err, status, reads, samples,
                   wcount, presort>>
    /\ UNCHANGED ctlvars

\* for (i < 100) y32 *= x32; then x32 = y32 and the 32-bit workload starts.
pre32_step ==
    /\ hpc = "pre32"
    /\ IF i < PreIters
       THEN /\ y32' = Mul32(y32, x32)
            /\ i' = i + 1
            /\ UNCHANGED <<x32, hpc, wl>>
       ELSE /\ x32' = y32
            /\ i' = 0
            /\ wl' = 32
            /\ hpc' = "loop"
            /\ UNCHANGED y32
    /\ UNCHANGED <<int128, env, argc, st, x64, y64, x64orig, y64orig, j, k,
                   begin, tt, cycles, out, err, status, reads, samples,
                   wcount, presort>>
    /\ UNCHANGED ctlvars

\* uint64_t begin = core_cycles(); and the inner loop starts.
loop_begin ==
    /\ hpc = "loop"
    /\ i < OuterIters
    /\ LET now == Add64(cycles, U64(Between(env))) IN
          /\ begin' = now
          /\ cycles' = now
    /\ reads' = reads + 1
    /\ j' = 0
    /\ k' = 0
    /\ hpc' = "body"
    /\ UNCHANGED <<int128, env, argc, st, wl, x32, y32, x64, y64, x64orig,
                   y64orig, i, tt, out, err, status, samples, wcount, presort>>
    /\ UNCHANGED ctlvars

\* One statement of the inner loop's body.
body_step ==
    /\ hpc = "body"
    /\ j < InnerIters
    /\ CASE wl = 32 ->
              /\ x32' = Step32(x32, y32, k)[1]
              /\ y32' = Step32(x32, y32, k)[2]
              /\ UNCHANGED <<x64, y64>>
         [] wl = 64 ->
              /\ x64' = Step64(x64, y64, k)[1]
              /\ y64' = Step64(x64, y64, k)[2]
              /\ UNCHANGED <<x32, y32>>
         [] wl = 128 ->
              /\ x64' = Step128(x64, y64, x64orig, y64orig, k)[1]
              /\ y64' = Step128(x64, y64, x64orig, y64orig, k)[2]
              /\ UNCHANGED <<x32, y32>>
    /\ IF k + 1 = BodyLen(wl)
       THEN j' = j + 1 /\ k' = 0
       ELSE j' = j /\ k' = k + 1
    /\ UNCHANGED <<int128, env, argc, st, hpc, wl, x64orig, y64orig, i, begin,
                   tt, cycles, out, err, status, reads, samples, wcount,
                   presort>>
    /\ UNCHANGED ctlvars

\* uint64_t end = core_cycles(); if (i >= 20) tt[i - 20] = end - begin; i ++.
loop_end ==
    /\ hpc = "body"
    /\ j = InnerIters
    /\ LET end == Add64(cycles, U64(Elapsed(env, wl, i)))
           delta == Sub64(end, begin)
           n == StoreIndex(i)
       IN  /\ cycles' = end
           /\ samples' = Append(samples, delta)
           /\ IF ShouldStore(i)
              THEN /\ tt' = [tt EXCEPT ![n] = delta]
                   /\ wcount' = IF n \in DOMAIN wcount
                                THEN [wcount EXCEPT ![n] = @ + 1]
                                ELSE [m \in DOMAIN wcount \cup {n} |->
                                         IF m = n THEN 1 ELSE wcount[m]]
              ELSE UNCHANGED <<tt, wcount>>
    /\ reads' = reads + 1
    /\ i' = i + 1
    /\ hpc' = "loop"
    /\ UNCHANGED <<int128, env, argc, st, wl, x32, y32, x64, y64, x64orig,
                   y64orig, j, k, begin, out, err, status, presort>>
    /\ UNCHANGED ctlvars

\* qsort(tt, 100, sizeof(uint64_t), &cmp_u64), once the outer loop is over.
sort_samples ==
    /\ hpc = "loop"
    /\ i = OuterIters
    /\ presort' = <<tt>>
    /\ tt' = qsort(tt)
    /\ hpc' = "printf"
    /\ UNCHANGED <<int128, env, argc, st, wl, x32, y32, x64, y64, x64orig,
                   y64orig, i, j, k, begin, cycles, out, err, status, reads,
                   samples, wcount>>
    /\ UNCHANGED ctlvars

\* printf("...: %7.3f\n", (double)tt[50] / 20000.0): the line is recorded
\* as its label, the sample it reports and the divisor.
print_median ==
    /\ hpc = "printf"
    /\ out' = Append(out, [label |-> Label(wl), sample |-> tt[MedianIndex],
                           per |-> Divisor(wl)])
    /\ hpc' = IF wl = 32 THEN "setup64"
              ELSE IF wl = 64 /\ int128 THEN "setup128"
              ELSE "final"
    /\ UNCHANGED <<int128, env, argc, st, wl, x32, y32, x64, y64, x64orig,
                   y64orig, i, j, k, begin, tt, cycles, err, status, reads,
                   samples, wcount, presort>>
    /\ UNCHANGED ctlvars

\* uint64_t x64 = (uint64_t)x32; x64 *= x64 * x64; uint64_t y64 = x64;
setup64 ==
    /\ hpc = "setup64"
    /\ LET v == ZeroExtend64(x32)
           w == Mul64(v, Mul64(v, v))
       IN  /\ x64' = w
           /\ y64' = w
    /\ wl' = 64
    /\ i' = 0
    /\ samples' = <<>>
    /\ wcount' = <<>>
    /\ hpc' = "loop"
    /\ UNCHANGED <<int128, env, argc, st, x32, y32, x64orig, y64orig, j, k,
                   begin, tt, cycles, out, err, status, reads, presort>>
    /\ UNCHANGED ctlvars

\* t64 = (uint64_t)((y64 >> 1) != 0) << 63; x64 |= t64; y64 |= t64;
\* x64orig = x64; y64orig = y64;
setup128 ==
    /\ hpc = "setup128"
    /\ LET t64 == TopBit(y64) IN
          /\ x64' = Or(x64, t64)
          /\ y64' = Or(y64, t64)
          /\ x64orig' = Or(x64, t64)
          /\ y64orig' = Or(y64, t64)
    /\ wl' = 128
    /\ i' = 0
    /\ samples' = <<>>
    /\ wcount' = <<>>
    /\ hpc' = "loop"
    /\ UNCHANGED <<int128, env, argc, st, x32, y32, j, k, begin, tt, cycles,
                   out, err, status, reads, presort>>
    /\ UNCHANGED ctlvars

\* The byte folded from x64, printf("(%u)\n", x & 0xFF), return 0.
final_print ==
    /\ hpc = "final"
    /\ LET r == FoldBytes(U32(0), x64, 8) IN
          /\ out' = Append(out, [label |-> "byte", sample |-> r[1][1], per |-> 1])
          /\ x64' = r[2]
    /\ status' = <<0>>
    /\ hpc' = "exit"
    /\ UNCHANGED <<int128, env, argc, st, wl, x32, y32, y64, x64orig, y64orig,
                   i, j, k, begin, tt, cycles, err, reads, samples, wcount,
                   presort>>
    /\ UNCHANGED ctlvars

NextHarness ==
    \/ main_usage
    \/ main_start
    \/ pre32_step
    \/ loop_begin
    \/ body_step
    \/ loop_end
    \/ sort_samples
    \/ print_median
    \/ setup64
    \/ setup128
    \/ final_print

SpecHarness == InitHarness /\ [][NextHarness]_vars

----------------------------------------------------------------------------
(* The reduction step alone, on sample buffers of many shapes: main stands *)
(* at the end of the outer loop of the 32-bit workload, tt being whatever  *)
(* the machine's timing made it.                                           *)

\* tt[n] = (a n + b) mod m, with a high limb that varies when h = 1.
Buffer(a, b, m, h) ==
    [n \in 0..(NSamples - 1) |->
        [U64((a * n + b) % m) EXCEPT ![8] = h * (n % 3)]]

InitMedian ==
    /\ CtlOff
    /\ int128 = FALSE
    /\ env \in Envs
    /\ argc = 2
    /\ st = 0
    /\ hpc = "loop"
    /\ wl = 32
    /\ x32 = U32(0) /\ y32 = U32(0)
    /\ x64 = U64(0) /\ y64 = U64(0) /\ x64orig = U64(0) /\ y64orig = U64(0)
    /\ i = OuterIters /\ j = InnerIters /\ k = 0
    /\ begin = U64(0)
    /\ \E a \in {1, 37, 99}, b \in {0, 1}, m \in {1, 2, 3, 7, 50, 100, 101, 1000},
          h \in {0, 1} : tt = Buffer(a, b, m, h)
    /\ cycles = env.start
    /\ out = <<>> /\ err = <<>> /\ status = <<>>
    /\ reads = 2 * OuterIters
    /\ samples = <<>>
    /\ wcount = <<>>
    /\ presort = <<>>

NextMedian ==
    \/ sort_samples
    \/ print_median

SpecMedian == InitMedian /\ [][NextMedian]_vars

----------------------------------------------------------------------------
(* Properties of the kernel module, checked under SpecCtl.                 *)

\* The active invariant on aarch64: overflow interrupt of the cycle counter
\* masked, cycle counter enabled (PMCNTENSET bit 31 and PMCR.E), and EL0
\* reads allowed (PMUSERENR bit 0 or bit 2).
ActiveAarch64(r) ==
    /\ 31 \notin r.pminten
    /\ 31 \in r.pmcnten
    /\ 0 \in r.pmcr
    /\ (0 \in r.pmuserenr \/ 2 \in r.pmuserenr)

\* What enable_counter makes of the registers r of its own CPU (aarch64).
EnabledFrom(r) ==
    [pminten |-> r.pminten \ {31}, pmcnten |-> r.pmcnten \cup {31},
     pmuserenr |-> {0, 2, 6}, pmcr |-> r.pmcr \cup {0, 2},
     pmccfiltr |-> {27}, scounteren |-> r.scounteren]

C2_ReadForbiddenAfterFini ==
    (phase = "unloaded" /\ loads >= 1) =>
        \A c \in CPUs :
            /\ arch = "aarch64" => regs[c].pmuserenr = {}
            /\ arch = "riscv" => regs[c].scounteren = {1}

\* C2 witness: fini() has returned after an init() that had opened access
\* on both CPUs (seen in the registers the first init() left).
C2_Witness ==
    /\ phase = "unloaded"
    /\ loads >= 1
    /\ \A c \in CPUs :
          \/ arch = "aarch64" /\ first[1][c].pmuserenr = {0, 2, 6}
          \/ arch = "riscv" /\ first[1][c].scounteren = 0..31

\* C3: init(); fini(); init() leaves every register of every CPU as the
\* first init() left it.
C3_ReenableSameState ==
    (phase = "active" /\ loads >= 2) => <<regs>> = first

\* C3 witness: the second init() has returned on aarch64, on a CPU that
\* started with PMCR bits D, DP, LP set, after a fini() that had closed
\* access.
C3_Witness ==
    /\ phase = "active"
    /\ loads = 2
    /\ arch = "aarch64"
    /\ regs0[1].pmcr = {3, 5, 7, 11}
    /\ before[1].pmuserenr = {}

\* C7: on riscv, whatever sbi_ecall returned on each CPU, init() returns 0
\* and every CPU made one request, logged the status it got and wrote
\* scounteren with bits 0..31 set.
C7_SbiFailureIgnored ==
    (arch = "riscv" /\ phase = "active") =>
        /\ ret = <<0>>
        /\ \A c \in CPUs :
              /\ sbi_calls[c] = 1
              /\ regs[c].scounteren = 0..31
              /\ klog[c][Len(klog[c])] =
                    <<"sbi_ecall() returned", c, sbi_r[c][1].error,
                      sbi_r[c][1].value>>

\* C7 witness: init() has returned on riscv although the firmware refused
\* the request on CPU 1 and accepted it on CPU 2.
C7_Witness ==
    /\ arch = "riscv"
    /\ phase = "active"
    /\ sbi_r[1][1].error # 0
    /\ sbi_r[2][1].error = 0

\* C9: when enable_counter has written PMCR_EL0 back, the value written has
\* LC (bit 6) set, DP (bit 5) and D (bit 3) clear, C (bit 2) and E (bit 0)
\* set, equals the value read in every other bit, and an isb came between
\* the read and the write.
C9_PmcrWriteBack ==
    \A c \in CPUs :
        (arch = "aarch64" /\ pc[c] = "ccfiltr") =>
            LET w == pmcr_wrote[c][1]
                v == pmcr_read[c]
            IN  /\ 6 \in w
                /\ 5 \notin w
                /\ 3 \notin w
                /\ 2 \in w
                /\ 0 \in w
                /\ w \ {0, 2, 3, 5, 6} = v \ {0, 2, 3, 5, 6}
                /\ isb_done[c]

----------------------------------------------------------------------------
(* Properties of the harness, checked under SpecHarness and SpecMedian.    *)

Slots == 0..(NSamples - 1)

\* How many samples of the buffer b are below v, and at most v.
Below(b, v) == Cardinality({n \in DOMAIN b : Less64(b[n], v)})

AtMost(b, v) == Cardinality({n \in DOMAIN b : ~Less64(v, b[n])})

AtLeast(b, v) == Cardinality({n \in DOMAIN b : ~Less64(b[n], v)})

\* The buffers a and b hold the same values, each as many times.
SameSamples(a, b) ==
    /\ DOMAIN a = DOMAIN b
    /\ \A n \in DOMAIN a :
          Cardinality({m \in DOMAIN a : a[m] = a[n]})
             = Cardinality({m \in DOMAIN b : b[m] = a[n]})

\* C4: once a workload's line is printed, the sample it reports is the one
\* of rank 50 (from 0) of the 100 samples the buffer held before the sort:
\* at most 50 samples are below it, at least 51 are at most it and at least
\* 50 are at least it; the sorted buffer is ascending and holds the same
\* samples as before.
C4_MedianRank ==
    (hpc = "setup64" /\ presort # <<>>) =>
        LET b == presort[1]
            v == out[Len(out)].sample
        IN  /\ SameSamples(b, tt)
            /\ \A n \in Slots \ {0} : ~Less64(tt[n], tt[n - 1])
            /\ v = tt[50]
            /\ Below(b, v) <= 50
            /\ AtMost(b, v) >= 51
            /\ AtLeast(b, v) >= 50

\* C4 witness: a line was printed from a buffer that the sort reordered,
\* that holds samples above 2^56 and samples that differ in the low limb
\* alone, and whose rank-50 sample is not tied.
C4_Witness ==
    /\ hpc = "setup64"
    /\ presort # <<>>
    /\ presort[1] # tt
    /\ \E n \in Slots : presort[1][n][8] # 0
    /\ Below(tt, tt[50]) = 50
    /\ AtMost(tt, tt[50]) = 51

\* The chain variables of the workload that is running.
In32 == hpc = "pre32" \/ (wl = 32 /\ hpc \in {"loop", "body", "printf", "setup64"})

In64 == wl = 64 /\ hpc \in {"loop", "body", "printf", "setup128"}

In128 == wl = 128 /\ hpc \in {"loop", "body", "printf"}

Started == argc = 2 /\ hpc # "main"

\* C5 as claimed: with seed 0 or 1 the chain variables hold the seed after
\* every step of every workload.
C5_SeedFixedPoint ==
    (Started /\ st \in {0, 1}) =>
        /\ In32 => (x32 = U32(st) /\ y32 = U32(st))
        /\ (In64 \/ In128) => (x64 = U64(st) /\ y64 = U64(st))

\* C5 as amended: with seed 0 the chain variables hold 0 after every step
\* of every workload; with seed 1 they hold 1 after every step of the
\* 32-bit and 64-bit workloads, and 0 or 1 in the 64x64->128 workload (x64
\* is 0 after every product, the upper half of 1 * 1 being 0); the run
\* ends with status 0, every line printed, every division being by 20000
\* or 8000.
C5_SeedFixedPointAmended ==
    (Started /\ st \in {0, 1}) =>
        /\ In32 => (x32 = U32(st) /\ y32 = U32(st))
        /\ In64 => (x64 = U64(st) /\ y64 = U64(st))
        /\ In128 =>
              /\ x64 \in {U64(0), U64(st)}
              /\ y64 \in {U64(0), U64(st)}
              /\ x64orig = U64(st) /\ y64orig = U64(st)
              /\ (hpc = "body" /\ k \in 3..9) => x64 = U64(0)
        /\ \A n \in 1..Len(out) : out[n].per \in {1, 8000, 20000}
        /\ hpc = "exit" =>
              /\ status = <<0>>
              /\ Len(out) = IF int128 THEN 4 ELSE 3

\* C5 witness: the run with seed 1 has ended on a build with the
\* 64x64->128 workload.
C5_Witness ==
    /\ Started
    /\ st = 1
    /\ int128
    /\ hpc = "exit"
    /\ x64orig = U64(1)

\* C6: with seed 3 the chain variables are nonzero after every step of
\* every workload.
C6_Seed3Nonzero ==
    (Started /\ st = 3) =>
        /\ In32 => (~IsZero(x32) /\ ~IsZero(y32))
        /\ (In64 \/ In128) => (~IsZero(x64) /\ ~IsZero(y64))

\* C8: with argc other than 2 nothing is measured (no counter read, no
\* sample written, nothing on stdout) and the process exits with a nonzero
\* status after the usage line on stderr; a run that exits with status 0
\* had argc = 2, wrote nothing to stderr and printed its lines.
C8_ArgcValidation ==
    /\ argc # 2 =>
          /\ reads = 0
          /\ out = <<>>
          /\ wcount = <<>>
          /\ \A n \in Slots : tt[n] = [m \in 1..8 |-> env.garbage]
          /\ hpc = "exit" =>
                /\ status # <<>>
                /\ status[1] # 0
                /\ err = <<"usage: test_cycle [ 0 | 1 | 3 ]">>
    /\ (argc = 2 /\ hpc = "exit") =>
          /\ status = <<0>>
          /\ err = <<>>
          /\ reads > 0
          /\ Len(out) = IF int128 THEN 4 ELSE 3

\* C8 witness: main was started with two arguments and has exited.
C8_Witness ==
    /\ argc = 3
    /\ hpc = "exit"
    /\ err # <<>>

\* C10: in each workload, a slot of tt is written at most once, at an index
\* within 0..99; after t iterations exactly the slots n with n + 20 < t are
\* written and slot n holds the delta of iteration n + 20, which is the
\* number of cycles that passed between the two reads even when the counter
\* wrapped around; the buffer handed to qsort is the deltas of iterations
\* 20..119 of that workload.
C10_WarmupDiscard ==
    (Started /\ wl # 0 /\ hpc \in {"loop", "body", "printf"}) =>
        /\ DOMAIN wcount \subseteq Slots
        /\ \A n \in DOMAIN wcount : wcount[n] = 1
        /\ DOMAIN wcount = {n \in Slots : n + Warmup < Len(samples)}
        /\ \A t \in 1..Len(samples) :
              samples[t] = U64(Elapsed(env, wl, t - 1))
        /\ hpc # "printf" =>
              /\ Len(samples) = i
              /\ \A n \in DOMAIN wcount : tt[n] = samples[n + 21]
        /\ hpc = "printf" =>
              /\ Len(samples) = 120
              /\ DOMAIN wcount = Slots
              /\ presort = <<[n \in Slots |-> samples[n + 21]]>>

\* C10 witness: the second workload's buffer was sorted, on the machine
\* whose counter wrapped around during the run and whose warm-up deltas
\* differ from all others.
C10_Witness ==
    /\ Started
    /\ wl = 64
    /\ hpc = "printf"
    /\ env.pattern = 1
    /\ Less64(cycles, env.start)

============================================================================
